---- MODULE Spec2Model ----
(***************************************************************************)
(* Admission webhook of the manual approval gate: reconciler.Admit decides *)
(* whether an update of an ApprovalTask is an approver recording their own *)
(* decision.  Source: src/pkg/reconciler/webhook/webhook.go.               *)
(***************************************************************************)
EXTENDS Naturals, Sequences, FiniteSets

VARIABLES request, disallowUnknownFields, response, pc

vars == <<request, disallowUnknownFields, response, pc>>

(***************************************************************************)
(* Data: v1alpha1.UserDetails is [Name, Input], v1alpha1.ApproverDetails   *)
(* is [Type, Name, Input, Users], an ApprovalTask is                       *)
(* [Spec |-> [Approvers, NumberOfApprovalsRequired],                       *)
(*  Status |-> [State, ApproversResponse]].                                *)
(***************************************************************************)

\* The zero value of v1alpha1.ApprovalTask (var oldObj / var newObj).
ZeroTask ==
  [Spec |-> [Approvers |-> <<>>, NumberOfApprovalsRequired |-> 0],
   Status |-> [State |-> "", ApproversResponse |-> <<>>]]

\* v1alpha1.DefaultedApproverType: an unset type is "User".
DefaultedApproverType(t) == IF t = "" THEN "User" ELSE t

\* A request body: kind "empty" is len(Raw) = 0, "malformed" is the bytes
\* "{", which end before the document does, "json" is a well-formed
\* document that carries obj and, with unknown, a field named extra that
\* the type does not declare.
RawEmpty == [kind |-> "empty", unknown |-> FALSE, obj |-> ZeroTask]
RawMalformed == [kind |-> "malformed", unknown |-> FALSE, obj |-> ZeroTask]
RawJson(obj, unknown) == [kind |-> "json", unknown |-> unknown, obj |-> obj]

\* json.Decoder.Decode into the zero-valued object, with
\* DisallowUnknownFields when the reconciler is configured so; a body of
\* length 0 is not decoded at all and leaves the zero value.
DecodeFails(raw, disallow) ==
  \/ raw.kind = "malformed"
  \/ raw.kind = "json" /\ raw.unknown /\ disallow

\* The text of the error Decode returns for a body it fails on.
DecodeError(raw) ==
  IF raw.kind = "malformed" THEN "unexpected EOF"
  ELSE "json: unknown field \"extra\""

Decoded(raw) == IF raw.kind = "json" THEN raw.obj ELSE ZeroTask

\* The range of a sequence.
Range(s) == {s[k] : k \in DOMAIN s}

\* for _, user := range users { if user.Name == name ... }
HasUser(users, name) == \E k \in DOMAIN users : users[k].Name = name

\* The first entry of users named name (a loop with break).
FirstUser(users, name) ==
  users[CHOOSE k \in DOMAIN users :
          /\ users[k].Name = name
          /\ \A m \in DOMAIN users : users[m].Name = name => k <= m]

\* The map name -> input built by assigning the entries in order: the last
\* entry of a name wins.
UserMap(users) ==
  [n \in {users[k].Name : k \in DOMAIN users} |->
     users[CHOOSE k \in DOMAIN users :
             /\ users[k].Name = n
             /\ \A m \in DOMAIN users : users[m].Name = n => m <= k].Input]

\* isUserInGroup of IsUserApprovalChanged and CheckOtherUsersForInvalidChanges:
\* the group's name is one of the requester's groups, or the requester is
\* listed among the group's users.
IsUserInGroup(approver, userInfo) ==
  \/ approver.Name \in userInfo.Groups
  \/ HasUser(approver.Users, userInfo.Username)

\* Mutant of ifUserExists: the Group case is missing.
IfUserExistsMatchesUserOnly(approvals, userInfo) ==
  \/ Len(approvals) = 0
  \/ \E i \in DOMAIN approvals :
       /\ DefaultedApproverType(approvals[i].Type) = "User"
       /\ approvals[i].Name = userInfo.Username

\* Mutant of ifUserExists: an empty list matches nobody.
IfUserExistsRejectsEmpty(approvals, userInfo) ==
  \E i \in DOMAIN approvals :
    \/ /\ DefaultedApproverType(approvals[i].Type) = "User"
       /\ approvals[i].Name = userInfo.Username
    \/ /\ DefaultedApproverType(approvals[i].Type) = "Group"
       /\ IsUserInGroup(approvals[i], userInfo)

ifUserExists(approvals, userInfo) ==
  \/ Len(approvals) = 0
  \/ \E i \in DOMAIN approvals :
       \/ /\ DefaultedApproverType(approvals[i].Type) = "User"
          /\ approvals[i].Name = userInfo.Username
       \/ /\ DefaultedApproverType(approvals[i].Type) = "Group"
          /\ IsUserInGroup(approvals[i], userInfo)

\* Mutant of isApprovalRequired: the response count is not compared.
IsApprovalRequiredIgnoresCount(approvaltask) ==
  ~(approvaltask.Status.State = "rejected" \/ approvaltask.Status.State = "approved")

isApprovalRequired(approvaltask) ==
  IF approvaltask.Status.State = "rejected" \/ approvaltask.Status.State = "approved"
  THEN FALSE
  ELSE IF Len(approvaltask.Status.ApproversResponse)
            = approvaltask.Spec.NumberOfApprovalsRequired
  THEN FALSE
  ELSE TRUE

\* hasValidInputValue: TRUE is a nil error.
hasValidInputValue(input) == input = "approve" \/ input = "reject"

\* The error hasValidInputValue returns for input (fmt.Errorf).
InvalidInputError(input) ==
  "invalid input value: '" \o input
    \o "'. Supported values are 'approve' or 'reject'"

\* Results of IsUserApprovalChanged: (changed, err) with err = "" for nil,
\* or the run-time panic of an index expression out of range.
Located(changed) == [changed |-> changed, err |-> "", panic |-> FALSE]
InvalidInput(input) ==
  [changed |-> FALSE, err |-> InvalidInputError(input), panic |-> FALSE]
IndexPanic == [changed |-> FALSE, err |-> "", panic |-> TRUE]

\* if err := hasValidInputValue(input); err != nil { return false, err }
\* return true, nil
Validated(input) ==
  IF hasValidInputValue(input) THEN Located(TRUE) ELSE InvalidInput(input)

\* Mutant of hasOnlyInputChanged: the names are not compared.
HasOnlyInputChangedIgnoresName(oldObjApprover, newObjApprover) ==
  IF oldObjApprover.Input # newObjApprover.Input
  THEN Validated(newObjApprover.Input)
  ELSE Located(FALSE)

hasOnlyInputChanged(oldObjApprover, newObjApprover) ==
  IF oldObjApprover.Name = newObjApprover.Name
       /\ oldObjApprover.Input # newObjApprover.Input
  THEN Validated(newObjApprover.Input)
  ELSE Located(FALSE)

\* The Group branch of IsUserApprovalChanged at index i, for a group the
\* requester is a member of: stop tells whether the branch returns, res is
\* what it returns; without a return the loop goes on to the next index.
GroupBranch(approver, newObjApprovers, i, currentUser) ==
  LET inRange == i <= Len(newObjApprovers)
      oldUserFound == HasUser(approver.Users, currentUser)
      newUserFound == inRange /\ HasUser(newObjApprovers[i].Users, currentUser)
      oldUserInput == FirstUser(approver.Users, currentUser).Input
      newUserInput == FirstUser(newObjApprovers[i].Users, currentUser).Input
  IN  IF inRange /\ approver.Input # newObjApprovers[i].Input
      THEN [stop |-> TRUE, res |-> Validated(newObjApprovers[i].Input)]
      ELSE IF ~oldUserFound /\ newUserFound
      THEN [stop |-> TRUE, res |-> Validated(newUserInput)]
      ELSE IF oldUserFound /\ newUserFound /\ oldUserInput # newUserInput
      THEN [stop |-> TRUE, res |-> Validated(newUserInput)]
      ELSE [stop |-> FALSE, res |-> Located(FALSE)]

\* The loop of IsUserApprovalChanged from index i on (indices from 1).
RECURSIVE ScanApprovers(_, _, _, _)
ScanApprovers(i, oldObjApprovers, newObjApprovers, userInfo) ==
  IF i > Len(oldObjApprovers) THEN Located(FALSE)
  ELSE LET approver == oldObjApprovers[i]
           currentUser == userInfo.Username
       IN  IF approver.Name = currentUser
                /\ DefaultedApproverType(approver.Type) = "User"
           THEN IF i > Len(newObjApprovers) THEN IndexPanic
                ELSE hasOnlyInputChanged(approver, newObjApprovers[i])
           ELSE IF DefaultedApproverType(approver.Type) = "Group"
                     /\ IsUserInGroup(approver, userInfo)
           THEN LET branch == GroupBranch(approver, newObjApprovers, i, currentUser)
                IN  IF branch.stop THEN branch.res
                    ELSE ScanApprovers(i + 1, oldObjApprovers, newObjApprovers, userInfo)
           ELSE ScanApprovers(i + 1, oldObjApprovers, newObjApprovers, userInfo)

\* Mutant of IsUserApprovalChanged: the requester's User entry returns only
\* when it has a change, as the Group branch does.
RECURSIVE ScanPassingUnchanged(_, _, _, _)
ScanPassingUnchanged(i, oldObjApprovers, newObjApprovers, userInfo) ==
  IF i > Len(oldObjApprovers) THEN Located(FALSE)
  ELSE LET approver == oldObjApprovers[i]
           currentUser == userInfo.Username
           own == IF i > Len(newObjApprovers) THEN IndexPanic
                  ELSE hasOnlyInputChanged(approver, newObjApprovers[i])
       IN  IF /\ approver.Name = currentUser
              /\ DefaultedApproverType(approver.Type) = "User"
              /\ own # Located(FALSE)
           THEN own
           ELSE IF DefaultedApproverType(approver.Type) = "Group"
                     /\ IsUserInGroup(approver, userInfo)
                     /\ GroupBranch(approver, newObjApprovers, i, currentUser).stop
           THEN GroupBranch(approver, newObjApprovers, i, currentUser).res
           ELSE ScanPassingUnchanged(i + 1, oldObjApprovers, newObjApprovers, userInfo)

IsUserApprovalChangedPassesUnchanged(oldObjApprovers, newObjApprovers, userInfo) ==
  ScanPassingUnchanged(1, oldObjApprovers, newObjApprovers, userInfo)

IsUserApprovalChanged(oldObjApprovers, newObjApprovers, userInfo) ==
  ScanApprovers(1, oldObjApprovers, newObjApprovers, userInfo)

\* newUsers of CheckOtherUsersForInvalidChanges: the map of the new group's
\* users, empty when the new list has no index i.
NewUsersAt(newObjApprover, i) ==
  IF i <= Len(newObjApprover) THEN UserMap(newObjApprover[i].Users) ELSE <<>>

\* The requester is not in the group and the group-level input differs.
GroupInputChanged(approver, newObjApprover, i, userInfo) ==
  /\ ~IsUserInGroup(approver, userInfo)
  /\ i <= Len(newObjApprover)
  /\ approver.Input # newObjApprover[i].Input

\* An existing user other than the requester has another input in the new
\* group.
OtherUserChanged(approver, newObjApprover, i, userInfo) ==
  LET oldUsers == UserMap(approver.Users)
      newUsers == NewUsersAt(newObjApprover, i)
  IN  \E userName \in DOMAIN oldUsers :
        /\ userName # userInfo.Username
        /\ userName \in DOMAIN newUsers
        /\ oldUsers[userName] # newUsers[userName]

\* The new group has a user the old one has not, who is not the requester
\* or whose group this is not.
UnauthorizedUserAdded(approver, newObjApprover, i, userInfo) ==
  LET oldUsers == UserMap(approver.Users)
      newUsers == NewUsersAt(newObjApprover, i)
  IN  \E userName \in DOMAIN newUsers :
        /\ userName \notin DOMAIN oldUsers
        /\ (userName # userInfo.Username \/ ~IsUserInGroup(approver, userInfo))

\* One iteration of the loop of CheckOtherUsersForInvalidChanges: "false" is
\* return false, "panic" the index expression newObjApprover[i] out of
\* range, "next" the end of the iteration.
CheckApprover(approver, newObjApprover, i, userInfo) ==
  IF DefaultedApproverType(approver.Type) = "User"
       /\ approver.Name # userInfo.Username
  THEN IF i > Len(newObjApprover) THEN "panic"
       ELSE IF approver.Input # newObjApprover[i].Input THEN "false"
       ELSE "next"
  ELSE IF /\ DefaultedApproverType(approver.Type) = "Group"
          /\ \/ GroupInputChanged(approver, newObjApprover, i, userInfo)
             \/ OtherUserChanged(approver, newObjApprover, i, userInfo)
             \/ UnauthorizedUserAdded(approver, newObjApprover, i, userInfo)
  THEN "false"
  ELSE "next"

\* The loop of CheckOtherUsersForInvalidChanges from index i on: "true",
\* "false" or "panic".
RECURSIVE CheckFrom(_, _, _, _)
CheckFrom(i, oldObjApprovers, newObjApprover, userInfo) ==
  IF i > Len(oldObjApprovers) THEN "true"
  ELSE LET r == CheckApprover(oldObjApprovers[i], newObjApprover, i, userInfo)
       IN  IF r = "next"
           THEN CheckFrom(i + 1, oldObjApprovers, newObjApprover, userInfo)
           ELSE r

CheckOtherUsersForInvalidChanges(oldObjApprovers, newObjApprover, userInfo) ==
  CheckFrom(1, oldObjApprovers, newObjApprover, userInfo)

\* The responses of Admit.
MsgOldDecode(err) == "cannot decode incoming old object: " \o err
MsgNewDecode(err) == "cannot decode incoming new object: " \o err
MsgFinal == "ApprovalTask has already reached it's final state"
MsgNotExist == "User does not exist in the approval list"
MsgOwnInput == "User can only update their own approval input"
MsgInvalidChange(err) == "Invalid input change: " \o err

\* Result.Code and Result.Reason are set by webhook.MakeErrorStatus only
\* (a BadRequest status); Admit's own denials set the message alone.
Deny(message) ==
  [Allowed |-> FALSE, Message |-> message, Code |-> 0, Reason |-> "",
   Panic |-> FALSE]
ErrorStatus(message) ==
  [Allowed |-> FALSE, Message |-> message, Code |-> 400, Reason |-> "BadRequest",
   Panic |-> FALSE]
Allow ==
  [Allowed |-> TRUE, Message |-> "", Code |-> 0, Reason |-> "", Panic |-> FALSE]
\* No AdmissionResponse: the handler's goroutine panicked.
Panicked ==
  [Allowed |-> FALSE, Message |-> "runtime error: index out of range",
   Code |-> 0, Reason |-> "", Panic |-> TRUE]
NoResponse ==
  [Allowed |-> FALSE, Message |-> "", Code |-> 0, Reason |-> "", Panic |-> FALSE]

\* reconciler.Admit from the decoded new object on (lines 144-173).
DecideChange(oldObj, newObj, userInfo) ==
  LET located == IsUserApprovalChanged(oldObj.Spec.Approvers,
                                       newObj.Spec.Approvers, userInfo)
      others == CheckOtherUsersForInvalidChanges(oldObj.Spec.Approvers,
                                                 newObj.Spec.Approvers, userInfo)
  IN  IF located.panic THEN Panicked
      ELSE IF located.err # "" THEN Deny(MsgInvalidChange(located.err))
      ELSE IF located.changed
      THEN IF others = "panic" THEN Panicked
           ELSE IF others = "true" THEN Allow
           ELSE Deny(MsgOwnInput)
      ELSE Deny(MsgOwnInput)

\* reconciler.Admit from the decoded old object on (lines 113-173).
Decide(oldObj, newRaw, userInfo, disallow) ==
  IF ~isApprovalRequired(oldObj) THEN Deny(MsgFinal)
  ELSE IF ~ifUserExists(oldObj.Spec.Approvers, userInfo) THEN Deny(MsgNotExist)
  ELSE IF DecodeFails(newRaw, disallow)
  THEN ErrorStatus(MsgNewDecode(DecodeError(newRaw)))
  ELSE DecideChange(oldObj, Decoded(newRaw), userInfo)

\* reconciler.Admit.
AdmitResponse(req, disallow) ==
  IF DecodeFails(req.OldObject, disallow)
  THEN ErrorStatus(MsgOldDecode(DecodeError(req.OldObject)))
  ELSE Decide(Decoded(req.OldObject), req.Object, req.UserInfo, disallow)

(***************************************************************************)
(* The requests the model admits.  Approver lists name alice, bob and the  *)
(* group qa; the requester is alice or bob, with or without the group qa.  *)
(***************************************************************************)
MaxApprovers == 2
MaxRequired == 1

Usernames == {"alice", "bob"}
GroupNames == {"qa"}
OldInputs == {"", "approve"}
NewInputs == {"", "approve", "reject", "maybe"}
States == {"pending", "approved", "rejected"}

\* request.UserInfo: alice, and anybody.
UserInfos == {[Username |-> "alice", Groups |-> g] : g \in SUBSET GroupNames}
AnyUserInfos ==
  {[Username |-> n, Groups |-> g] : n \in Usernames, g \in SUBSET GroupNames}

User(type, name, input) ==
  [Type |-> type, Name |-> name, Input |-> input, Users |-> <<>>]
GroupOf(name, input, users) ==
  [Type |-> "Group", Name |-> name, Input |-> input, Users |-> users]
Member(name, input) == [Name |-> name, Input |-> input]

\* Member lists of an old object: nobody has answered.
OldMemberLists ==
  {<<>>, <<Member("alice", "")>>, <<Member("bob", "")>>,
   <<Member("alice", ""), Member("bob", "")>>}

\* Member lists of an old object that name somebody twice.
RepeatingMemberLists ==
  {<<Member("alice", ""), Member("alice", "approve")>>,
   <<Member("bob", "approve"), Member("bob", "")>>}

\* The approver entries of an old object.
OldEntries ==
  {User("User", n, i) : n \in Usernames, i \in OldInputs}
    \cup {User("", "alice", "")}
    \cup {GroupOf(g, "", u) : g \in GroupNames, u \in OldMemberLists}

\* The sequences over S of length at most n.
BoundedSeq(S, n) == UNION {[1..k -> S] : k \in 0..n}

\* The group entries of an old object whose members repeat a name.
RepeatingEntries == {GroupOf(g, "", u) : g \in GroupNames, u \in RepeatingMemberLists}

OldApproverLists == BoundedSeq(OldEntries, MaxApprovers)

IsGroupAt(l, i) == DefaultedApproverType(l[i].Type) = "Group"

RemoveAt(s, j) == SubSeq(s, 1, j - 1) \o SubSeq(s, j + 1, Len(s))

\* The approver lists one edit of the entries away from l: an entry's input
\* set, an entry renamed to bob, the last entry dropped, an entry appended.
EntryEdit(l) ==
  {[l EXCEPT ![i].Input = v] : i \in DOMAIN l, v \in NewInputs}
    \cup {[l EXCEPT ![i].Name = "bob"] : i \in DOMAIN l}
    \cup (IF Len(l) > 0 THEN {SubSeq(l, 1, Len(l) - 1)} ELSE {})
    \cup (IF Len(l) < MaxApprovers
          THEN {Append(l, User("User", "bob", "approve"))} ELSE {})

\* The approver lists one edit of a group's members away from l: a member's
\* input set, a member entry of any name, new or already listed, put at the
\* head of the members, a member entry removed.
MemberEdit(l) ==
  UNION {{[l EXCEPT ![i].Users[j].Input = v] :
            j \in DOMAIN l[i].Users, v \in NewInputs} : i \in DOMAIN l}
    \cup UNION {{[l EXCEPT ![i].Users = <<Member(n, v)>> \o @] :
                   n \in Usernames, v \in NewInputs} :
                 i \in {k \in DOMAIN l : IsGroupAt(l, k)}}
    \cup UNION {{[l EXCEPT ![i].Users = RemoveAt(@, j)] :
                   j \in DOMAIN l[i].Users} : i \in DOMAIN l}

\* The approver lists one edit away from l.
OneEdit(l) == EntryEdit(l) \cup MemberEdit(l)

\* The proposed approver lists for an old list l: l itself, and l after one
\* or two edits.
Updates(l) == {l} \cup OneEdit(l) \cup UNION {OneEdit(m) : m \in OneEdit(l)}

Task(approvers, state, responses, required) ==
  [Spec |-> [Approvers |-> approvers, NumberOfApprovalsRequired |-> required],
   Status |-> [State |-> state, ApproversResponse |-> responses]]

\* An open task: one approval required, none recorded.
OpenTask(approvers) == Task(approvers, "pending", <<>>, 1)

\* n recorded responses.
Responses(n) == [k \in 1..n |-> "bob"]

Bodies(obj) == {RawEmpty, RawMalformed, RawJson(obj, FALSE), RawJson(obj, TRUE)}

Request(oldRaw, newRaw, userInfo) ==
  [OldObject |-> oldRaw, Object |-> newRaw, UserInfo |-> userInfo]

\* An update of an open task by alice, both bodies well-formed: every old
\* approver list with every proposed list.
InitUpdate ==
  /\ \E old \in OldApproverLists : \E new \in Updates(old) : \E u \in UserInfos :
       request = Request(RawJson(OpenTask(old), FALSE), RawJson(OpenTask(new), FALSE), u)
  /\ disallowUnknownFields = FALSE

\* Every kind of body, every status and every requester, for an old list of
\* at most one entry, one with a repeated member name included, and a
\* proposed list at most one edit of the entries away.
InitBody ==
  /\ \E old \in BoundedSeq(OldEntries \cup RepeatingEntries, 1) : \E new \in {old} \cup EntryEdit(old) :
     \E st \in States, got \in 0..MaxRequired, req \in 0..MaxRequired :
     \E o \in Bodies(Task(old, st, Responses(got), req)),
        n \in Bodies(Task(new, st, Responses(got), req)), u \in AnyUserInfos :
       request = Request(o, n, u)
  /\ disallowUnknownFields \in BOOLEAN

Init ==
  /\ InitUpdate \/ InitBody
  /\ response = NoResponse
  /\ pc = "received"

\* The webhook serves the request: reconciler.Admit.
Admit ==
  /\ pc = "received"
  /\ response' = AdmitResponse(request, disallowUnknownFields)
  /\ pc' = "done"
  /\ UNCHANGED <<request, disallowUnknownFields>>

Next == Admit

Spec == Init /\ [][Next]_vars

(***************************************************************************)
(* The vocabulary of the properties.                                       *)
(***************************************************************************)
oldDecodes == ~DecodeFails(request.OldObject, disallowUnknownFields)
newDecodes == ~DecodeFails(request.Object, disallowUnknownFields)
oldObj == Decoded(request.OldObject)
newObj == Decoded(request.Object)
oldApprovers == oldObj.Spec.Approvers
newApprovers == newObj.Spec.Approvers
userInfo == request.UserInfo

\* The decode-failure rejections of the request's old and new body.
OldDecodeFailure == ErrorStatus(MsgOldDecode(DecodeError(request.OldObject)))
NewDecodeFailure == ErrorStatus(MsgNewDecode(DecodeError(request.Object)))

\* A closed task: a final state, or as many responses as approvals required.
Closed(task) ==
  \/ task.Status.State \in {"approved", "rejected"}
  \/ Len(task.Status.ApproversResponse) = task.Spec.NumberOfApprovalsRequired

MemberNames(entry) == {entry.Users[k].Name : k \in DOMAIN entry.Users}

\* The inputs a member list records under a name, one for every member
\* entry of that name, in the order of the list.
MemberInputs(entry, name) ==
  LET named == SelectSeq(entry.Users, LAMBDA m : m.Name = name)
  IN  [k \in DOMAIN named |-> named[k].Input]

IsUserEntry(entry) == entry.Type \in {"User", ""}
IsGroupEntry(entry) == entry.Type = "Group"

\* The requester belongs to the group entry: by group name, or by its
\* member list.
InGroup(entry, u) ==
  IsGroupEntry(entry) /\ (entry.Name \in u.Groups \/ u.Username \in MemberNames(entry))

\* The entry belongs to the requester.
EntryOf(entry, u) ==
  \/ IsUserEntry(entry) /\ entry.Name = u.Username
  \/ InGroup(entry, u)

\* The indices both lists have.
Common(o, n) == DOMAIN o \cap DOMAIN n

\* The entries whose own input differs between old and new.
ChangedEntries(o, n) == {i \in Common(o, n) : o[i].Input # n[i].Input}

\* The member entries of a name, counted in the order of the list, whose
\* input differs between old and new, an entry the new list adds included.
ChangedOfName(oldEntry, newEntry, name) ==
  LET was == MemberInputs(oldEntry, name)
      is == MemberInputs(newEntry, name)
  IN  {k \in DOMAIN is : k \notin DOMAIN was \/ was[k] # is[k]}

\* The member entries <<index, name, k>> whose input differs: the k-th of
\* that name in the group at index.
ChangedMembers(o, n) ==
  UNION {UNION {{<<i, name, k>> : k \in ChangedOfName(o[i], n[i], name)} :
                name \in MemberNames(n[i])} :
           i \in {k \in Common(o, n) : IsGroupEntry(o[k])}}

\* The number of decision values that differ.
Touched(o, n) == Cardinality(ChangedEntries(o, n)) + Cardinality(ChangedMembers(o, n))

\* Admit ran its checks on a decoded open task.
Served == pc = "done" /\ oldDecodes /\ newDecodes
ServedOpen == Served /\ ~Closed(oldObj)

\* Every decision value the update touches belongs to the requester.
TouchedAreOwn(o, n, u) ==
  /\ \A i \in ChangedEntries(o, n) : EntryOf(o[i], u)
  /\ \A site \in ChangedMembers(o, n) :
       site[2] = u.Username /\ InGroup(o[site[1]], u)

\* C2: every allowed update of an open task touches exactly one decision
\* value (an entry's own input, a group's own input, a member entry's input,
\* that of an added member entry included), and that value belongs to the
\* requester; an update in which more than one differs is denied.
C2_SingleOwner ==
  ServedOpen /\ response.Allowed =>
    /\ Touched(oldApprovers, newApprovers) = 1
    /\ TouchedAreOwn(oldApprovers, newApprovers, userInfo)

\* C1: a decoded old task that is closed is denied with the final-state
\* reason, whoever asks and whatever the new body is.
C1_ClosedTaskDenied ==
  pc = "done" /\ oldDecodes /\ Closed(oldObj) => response = Deny(MsgFinal)

\* A task closed by its response count only, asked about by a requester who
\* is not in its approver list.
C1_Witness ==
  /\ pc = "done"
  /\ request.OldObject.kind = "json"
  /\ oldDecodes
  /\ oldObj.Status.State = "pending"
  /\ Len(oldObj.Status.ApproversResponse) = 1
  /\ oldObj.Spec.NumberOfApprovalsRequired = 1
  /\ Len(oldApprovers) > 0
  /\ \A i \in DOMAIN oldApprovers : ~EntryOf(oldApprovers[i], userInfo)
  /\ response = Deny(MsgFinal)

\* C7: on an open task with a non-empty approver list, a requester who
\* matches no entry is denied as not in the list whatever the new body is,
\* and a requester who matches an entry never is.
C7_IneligibleRequester ==
  pc = "done" /\ oldDecodes /\ ~Closed(oldObj) /\ Len(oldApprovers) > 0 =>
    IF \E i \in DOMAIN oldApprovers : EntryOf(oldApprovers[i], userInfo)
    THEN response.Message # MsgNotExist
    ELSE response = Deny(MsgNotExist)

\* A requester outside the list, with a new body that does not decode.
C7_Witness ==
  /\ pc = "done"
  /\ oldDecodes
  /\ ~Closed(oldObj)
  /\ Len(oldApprovers) > 0
  /\ \A i \in DOMAIN oldApprovers : ~EntryOf(oldApprovers[i], userInfo)
  /\ ~newDecodes
  /\ response = Deny(MsgNotExist)

\* C10: an open task with an empty approver list lets every requester pass
\* the eligibility check and then denies every decodable update with the
\* own-input reason.
C10_EmptyListNeverAdmits ==
  ServedOpen /\ Len(oldApprovers) = 0 => response = Deny(MsgOwnInput)

\* An empty old list with a new list that adds an approved entry.
C10_Witness ==
  /\ ServedOpen
  /\ Len(oldApprovers) = 0
  /\ Len(newApprovers) > 0
  /\ response = Deny(MsgOwnInput)

\* C6: for a request that carries an old object, a body that does not
\* decode, old or new, is answered with a decode failure and with no denial
\* of the engine's checks.
C6_DecodeBeforeDecide ==
  pc = "done" /\ request.OldObject.kind = "json" /\ (~oldDecodes \/ ~newDecodes) =>
    response \in {OldDecodeFailure, NewDecodeFailure}

\* C5 as stated: Admit answers every request and never faults on an index
\* out of range.
C5_TotalDecision == pc = "done" => ~response.Panic

\* The new values of the touched decision values.
TouchedValues(o, n) ==
  {n[i].Input : i \in ChangedEntries(o, n)}
    \cup {MemberInputs(n[site[1]], site[2])[site[3]] : site \in ChangedMembers(o, n)}

\* C4 as stated: every value an allowed update touches is "approve" or
\* "reject".
C4_ValueDomain ==
  ServedOpen /\ response.Allowed =>
    TouchedValues(oldApprovers, newApprovers) \subseteq {"approve", "reject"}

\* The entry the new list has at index i of the old list, an entry without
\* input and members when the new list has no such index.
NewEntryAt(n, i) ==
  IF i \in DOMAIN n THEN n[i] ELSE [Type |-> "", Name |-> "", Input |-> "", Users |-> <<>>]

\* C9: in every allowed update, at every index of the old list, (1) a User
\* entry of somebody else has the same input in old and new, (2) a group the
\* requester does not belong to has the same own input in old and new, (3)
\* every member other than the requester who is in both member lists has the
\* same input, and (4) every name the new member list adds is the requester,
\* in a group the requester belongs to.
C9_OthersIsolated ==
  ServedOpen /\ response.Allowed =>
    \A i \in DOMAIN oldApprovers :
      LET o == oldApprovers[i]
          n == NewEntryAt(newApprovers, i)
      IN  /\ IsUserEntry(o) /\ o.Name # userInfo.Username =>
               i \in DOMAIN newApprovers /\ n.Input = o.Input
          /\ IsGroupEntry(o) /\ ~InGroup(o, userInfo) =>
               i \in DOMAIN newApprovers /\ n.Input = o.Input
          /\ IsGroupEntry(o) =>
               /\ \A name \in (MemberNames(o) \cap MemberNames(n)) \ {userInfo.Username} :
                    Range(MemberInputs(n, name)) = Range(MemberInputs(o, name))
               /\ \A name \in MemberNames(n) \ MemberNames(o) :
                    name = userInfo.Username /\ InGroup(o, userInfo)

\* Lists of equal length in which exactly one decision value differs, its
\* new value being "approve" or "reject".
OneValidChange(o, n) ==
  /\ Len(o) = Len(n)
  /\ Touched(o, n) = 1
  /\ TouchedValues(o, n) \subseteq {"approve", "reject"}

\* Every entry keeps its name.
NamesKept(o, n) == \A i \in Common(o, n) : o[i].Name = n[i].Name

\* The member entries that differ are the first of their name.
FirstOfName(o, n) == \A site \in ChangedMembers(o, n) : site[3] = 1

TouchedAt(o, n) == ChangedEntries(o, n) \cup {site[1] : site \in ChangedMembers(o, n)}

\* No User entry named after the requester precedes index i.
NoOwnUserEntryBefore(o, i, u) ==
  \A k \in 1..(i - 1) : ~(IsUserEntry(o[k]) /\ o[k].Name = u.Username)

Least(S) == CHOOSE k \in S : \A m \in S : k <= m

\* The first index of the old list whose entry belongs to the requester, 0
\* without one.
FirstOwn(o, u) ==
  LET own == {i \in DOMAIN o : EntryOf(o[i], u)}
  IN  IF own = {} THEN 0 ELSE Least(own)

\* Entries for the part of a new list that follows index k.
LaterEntries ==
  {User("User", "alice", ""), User("User", "alice", "approve"),
   GroupOf("qa", "", <<>>),
   GroupOf("qa", "approve", <<Member("alice", "approve")>>)}

\* LaterLists[n]: the lists of at most n such entries.
LaterLists == [n \in 0..MaxApprovers |-> BoundedSeq(LaterEntries, n)]

\* The new list that agrees with the proposed one up to index k and goes
\* on with tail.
Agreeing(k, tail) == SubSeq(newApprovers, 1, k) \o tail

\* The new lists that agree with the proposed one up to index k, whatever
\* they contain at the later indices.
Alternatives(k) == {Agreeing(k, tail) : tail \in LaterLists[MaxApprovers - k]}

\* C8 as stated, for new lists no shorter than the old one (every index has
\* a counterpart): the located change is the same for all new lists that
\* agree up to the first entry of the requester.
C8_FirstMatchOriginal ==
  LET k == FirstOwn(oldApprovers, userInfo)
      located == IsUserApprovalChanged(oldApprovers, newApprovers, userInfo)
  IN  ServedOpen /\ k > 0 /\ Len(newApprovers) >= Len(oldApprovers) =>
        \A alt \in {a \in Alternatives(k) : Len(a) >= Len(oldApprovers)} :
          IsUserApprovalChanged(oldApprovers, alt, userInfo) = located

\* The requester's group entry shows a change: its own input differs, or the
\* requester is a new member, or the input of the requester's member entry,
\* the first of that name, differs.
GroupChange(o, n, u) ==
  \/ o.Input # n.Input
  \/ /\ u.Username \in MemberNames(n)
     /\ \/ u.Username \notin MemberNames(o)
        \/ MemberInputs(o, u.Username)[1] # MemberInputs(n, u.Username)[1]

\* The first index at which the scan ends: a User entry named after the
\* requester, or a group of the requester that shows a change; 0 without.
FirstStop(o, n, u) ==
  LET stops == {i \in DOMAIN o :
                  \/ IsUserEntry(o[i]) /\ o[i].Name = u.Username
                  \/ InGroup(o[i], u) /\ i \in DOMAIN n /\ GroupChange(o[i], n[i], u)}
  IN  IF stops = {} THEN 0 ELSE Least(stops)

\* C8 (amended): the scan ends at the first User entry named after the
\* requester or the first group of the requester that shows a change, and a
\* group of the requester without a change is passed over; the located
\* change is the same for all new lists that agree up to that index, and
\* nothing is located when there is no such index.
C8_FirstStopDecides ==
  LET k == FirstStop(oldApprovers, newApprovers, userInfo)
      located == IsUserApprovalChanged(oldApprovers, newApprovers, userInfo)
  IN  ServedOpen =>
        /\ k = 0 => located = Located(FALSE)
        /\ k > 0 /\ k <= Len(newApprovers) =>
             \A tail \in LaterLists[MaxApprovers - k] :
               IsUserApprovalChanged(oldApprovers, Agreeing(k, tail), userInfo) = located

\* The requester owns two entries, the scan ends at the first, and the
\* second changes without being looked at.
C8_Witness ==
  /\ ServedOpen
  /\ Len(oldApprovers) = 2
  /\ Len(newApprovers) = 2
  /\ \A i \in DOMAIN oldApprovers : EntryOf(oldApprovers[i], userInfo)
  /\ FirstStop(oldApprovers, newApprovers, userInfo) = 1
  /\ 2 \in TouchedAt(oldApprovers, newApprovers)
  /\ 1 \notin TouchedAt(oldApprovers, newApprovers)
  /\ response = Deny(MsgOwnInput)
====
